---------------------------- MODULE Spec2Model ----------------------------
(***************************************************************************)
(* xfs_repair phase 7 (repair/phase7.c): link-count reconciliation.        *)
(*                                                                         *)
(* For every inode slot of every inode-chunk record of every allocation    *)
(* group the walker compares the reference count computed by phase 6 with  *)
(* the link count memorised from disk in phase 3/4 and, where they differ, *)
(* calls update_inode_nlinks, which opens a transaction, loads the inode,  *)
(* compares again (set_nlinks) and commits or cancels.                     *)
(*                                                                         *)
(* One action models one step of the walk: a slot examination includes the *)
(* whole call of update_inode_nlinks it makes.  do_error() and a failed    *)
(* assertion end the process: no action is enabled afterwards.             *)
(* libxfs_trans_reserve and libxfs_trans_commit are taken to succeed       *)
(* (phase7.c:79, 118 assert it).  ASSERT and assert are as the source      *)
(* writes them: compiled in, a false condition ends the process.           *)
(***************************************************************************)
EXTENDS Integers, Sequences, FiniteSets, TLC

\* ------------------------------------------------------------------ bounds
glob_agcount == 2            \* number of allocation groups
MaxRecs == 2                 \* inode-chunk records in the whole tree
XFS_INODES_PER_CHUNK == 2    \* slots of one chunk record (64 on disk)
MaxOdd == 1                  \* inodes that differ from PlainIno

\* --------------------------------------------------------------- constants
XFS_MAXLINK_1 == 65535       \* largest link count of a version 1 inode
NULL == 0                    \* irec == NULL

AGs == 0 .. (glob_agcount - 1)
Slots == 0 .. (XFS_INODES_PER_CHUNK - 1)
AginoSpace == (MaxRecs + 1) * XFS_INODES_PER_CHUNK

VARIABLES
  no_modify,       \* globals.h: verify only
  do_prefetch,     \* globals.h: selects phase7_alt
  fs_inode_nlink,  \* versions.h: the filesystem has the nlink feature
  orphanage_ino,   \* inode number of lost+found, 0 if there is none
  inode_tree,      \* [ag -> sequence of chunk records] built by phases 3-6
  iget_err,        \* inode numbers libxfs_trans_iget cannot map
  di_nlink,        \* [ino -> link count of the on-disk inode core]
  di_nlink0,       \* di_nlink when phase 7 was entered
  pc,              \* position of the thread that called phase7()
  i,               \* loop variable i of phase7 / phase7_alt
  w_irec,          \* [ag -> irec of the walk of that AG], NULL or an index
  w_j,             \* [ag -> j of the walk of that AG]
  task,            \* [ag -> state of the work item queued for that AG]
  nqueued,         \* [ag -> queue_work calls made for that AG]
  aborted,         \* "no", or how the process ended: "do_error", "assert"
  tp_alloc,        \* [ino -> transactions allocated for it]
  tp_commit,       \* [ino -> transactions committed]
  tp_cancel,       \* [ino -> transactions cancelled]
  nlink_log,       \* [ino -> sequence of the values committed to di_nlink]
  warns,           \* [ino -> do_warn messages about it]
  tp_owner,        \* [ino -> the AGs whose walk opened a transaction for it]
  visited,         \* [<<ag, irec, j>> -> times the live slot was compared]
  prog_rpt_done,   \* [ag -> progress counter]
  final_rpt,       \* calls of print_final_rpt
  run,             \* 1 in the first pass, 2 in a repeated one
  prev             \* results of the first pass, once a second one started

cfgvars == <<no_modify, fs_inode_nlink, orphanage_ino, inode_tree, iget_err,
             di_nlink0>>
tpvars == <<tp_alloc, tp_commit, tp_cancel, nlink_log, warns, tp_owner>>
vars == <<no_modify, do_prefetch, fs_inode_nlink, orphanage_ino, inode_tree,
          iget_err, di_nlink, di_nlink0, pc, i, w_irec, w_j, task, nqueued,
          aborted, tp_alloc, tp_commit, tp_cancel, nlink_log, warns, tp_owner,
          visited, prog_rpt_done, final_rpt, run, prev>>

\* ------------------------------------------------- the inode record source
\* XFS_AGINO_TO_INO(mp, agno, agino): (agno << agino bits) | agino
XFS_AGINO_TO_INO(agno, agino) == agno * AginoSpace + agino

findfirst_inode_rec(agno) == IF Len(inode_tree[agno]) = 0 THEN NULL ELSE 1

next_ino_rec(agno, irec) ==
  IF irec < Len(inode_tree[agno]) THEN irec + 1 ELSE NULL

SlotOf(agno, irec, j) == inode_tree[agno][irec].slot[j]
is_inode_confirmed(agno, irec, j) == SlotOf(agno, irec, j).confirmed
is_inode_free(agno, irec, j) == SlotOf(agno, irec, j).free
is_inode_reached(agno, irec, j) == SlotOf(agno, irec, j).reached
is_inode_referenced(agno, irec, j) == SlotOf(agno, irec, j).referenced
num_inode_references(agno, irec, j) == SlotOf(agno, irec, j).nrefs
get_inode_disk_nlinks(agno, irec, j) == SlotOf(agno, irec, j).disk_nlinks

\* the inode number the walker derives for a slot
InoOf(agno, irec, j) ==
  XFS_AGINO_TO_INO(agno, inode_tree[agno][irec].ino_startnum + j)

\* every slot the tree holds, and the live ones
AllPos == {p \in AGs \X (1 .. MaxRecs) \X Slots : p[2] <= Len(inode_tree[p[1]])}
LivePos == {p \in AllPos : ~is_inode_free(p[1], p[2], p[3])}
Inos == DOMAIN di_nlink


\* ------------------------------------------------------------ initial state
\* One inode as the earlier phases left it: its slot of the in-core record,
\* the link count of its on-disk core, whether it can be mapped, whether it
\* is lost+found.
Ino(free, flags, nrefs, disk_nlinks, di, err, orph) ==
  [rec |-> [free |-> free, confirmed |-> flags[1], reached |-> flags[2],
            referenced |-> flags[3], nrefs |-> nrefs,
            disk_nlinks |-> disk_nlinks],
   di |-> di, err |-> err, orph |-> orph]

AllSet == <<TRUE, TRUE, TRUE>>

\* an inode in use whose memorised and on-disk link count (1) is not the
\* number of references counted (2)
PlainIno == Ino(FALSE, AllSet, 2, 1, 1, FALSE, FALSE)

\* the inodes a tree may hold besides PlainIno
FreeIno == Ino(TRUE, AllSet, 0, 0, 0, FALSE, FALSE)
\* link count right
GoodIno == Ino(FALSE, AllSet, 1, 1, 1, FALSE, FALSE)
\* memorised count stale: the disk already holds the counted number
StaleFixedIno == Ino(FALSE, AllSet, 2, 1, 2, FALSE, FALSE)
\* memorised count stale: it equals the counted number, the disk does not
StaleWrongIno == Ino(FALSE, AllSet, 2, 2, 1, FALSE, FALSE)
\* lost+found, its link count not the counted number
OrphanageIno == Ino(FALSE, AllSet, 2, 1, 1, FALSE, TRUE)
\* libxfs_trans_iget fails for it
UnmappedIno == Ino(FALSE, AllSet, 2, 1, 1, TRUE, FALSE)
UnmappedOrphanageIno == Ino(FALSE, AllSet, 2, 1, 1, TRUE, TRUE)

ValueOdd == {FreeIno, GoodIno, StaleFixedIno, StaleWrongIno, OrphanageIno}
ErrOdd == {FreeIno, GoodIno, UnmappedIno, OrphanageIno, UnmappedOrphanageIno}

RECURSIVE SumTo(_, _)
SumTo(n, a) == IF a < 0 THEN 0 ELSE n[a] + SumTo(n, a - 1)

\* chain lengths of the AGs
Shapes == {n \in [AGs -> 0 .. MaxRecs] : SumTo(n, glob_agcount - 1) <= MaxRecs}

PosOf(n) == {p \in AGs \X (1 .. MaxRecs) \X Slots : p[2] <= n[p[1]]}

InoAt(p) == XFS_AGINO_TO_INO(p[1], p[2] * XFS_INODES_PER_CHUNK + p[3])

InitWith(Odd, modes, strategies, nlinkFeature) ==
  /\ no_modify \in modes
  /\ do_prefetch \in strategies
  /\ fs_inode_nlink \in nlinkFeature
  /\ \E n \in Shapes :
       \E S \in {T \in SUBSET PosOf(n) : Cardinality(T) <= MaxOdd} :
         \E f \in [S -> Odd] :
           LET lay == [p \in PosOf(n) |-> IF p \in S THEN f[p] ELSE PlainIno]
               orph == {p \in S : f[p].orph}
           IN  /\ Cardinality(orph) <= 1
               /\ inode_tree =
                    [a \in AGs |->
                      [c \in 1 .. n[a] |->
                        [ino_startnum |-> c * XFS_INODES_PER_CHUNK,
                         slot |-> [j \in Slots |-> lay[<<a, c, j>>].rec]]]]
               /\ di_nlink =
                    [ino \in {InoAt(p) : p \in PosOf(n)} |->
                      lay[CHOOSE p \in PosOf(n) : InoAt(p) = ino].di]
               /\ iget_err = {InoAt(p) : p \in {q \in S : f[q].err}}
               /\ orphanage_ino =
                    IF orph = {} THEN 0
                    ELSE InoAt(CHOOSE p \in orph : TRUE)
  /\ di_nlink0 = di_nlink
  /\ pc = "phase7"
  /\ i = 0
  /\ w_irec = [a \in AGs |-> NULL]
  /\ w_j = [a \in AGs |-> 0]
  /\ task = [a \in AGs |-> "none"]
  /\ nqueued = [a \in AGs |-> 0]
  /\ aborted = "no"
  /\ tp_alloc = [ino \in DOMAIN di_nlink |-> 0]
  /\ tp_commit = [ino \in DOMAIN di_nlink |-> 0]
  /\ tp_cancel = [ino \in DOMAIN di_nlink |-> 0]
  /\ nlink_log = [ino \in DOMAIN di_nlink |-> <<>>]
  /\ warns = [ino \in DOMAIN di_nlink |-> 0]
  /\ tp_owner = [ino \in DOMAIN di_nlink |-> {}]
  /\ visited = [p \in AllPos |-> 0]
  /\ prog_rpt_done = [a \in AGs |-> 0]
  /\ final_rpt = 0
  /\ run = 1
  /\ prev = <<>>

Init == InitWith(ValueOdd, BOOLEAN, BOOLEAN, {TRUE})

\* set_nlinks without the test of no_modify
set_nlinks_ignores_no_modify(di, ino, nrefs) ==
  IF di = nrefs
    THEN [di_nlink |-> di, dirty |-> FALSE, warns |-> 0, failed |-> FALSE]
    ELSE [di_nlink |-> nrefs, dirty |-> TRUE, warns |-> 1, failed |-> FALSE]

\* set_nlinks that marks the inode dirty and leaves its link count
set_nlinks_keeps_count(di, ino, nrefs) ==
  IF di = nrefs
    THEN [di_nlink |-> di, dirty |-> FALSE, warns |-> 0, failed |-> FALSE]
  ELSE IF ~no_modify
    THEN [di_nlink |-> di, dirty |-> TRUE, warns |-> 1, failed |-> FALSE]
    ELSE [di_nlink |-> di, dirty |-> FALSE, warns |-> 1, failed |-> FALSE]

\* set_nlinks without "if (dinoc->di_nlink == nrefs) return;"
set_nlinks_always_resets(di, ino, nrefs) ==
  IF ~no_modify
    THEN [di_nlink |-> nrefs, dirty |-> TRUE, warns |-> 1, failed |-> FALSE]
    ELSE [di_nlink |-> di, dirty |-> FALSE, warns |-> 1, failed |-> FALSE]

\* set_nlinks for which a count above XFS_MAXLINK_1 is an error whatever the
\* filesystem's features are
set_nlinks_refuses_overflow(di, ino, nrefs) ==
  IF di = nrefs
    THEN [di_nlink |-> di, dirty |-> FALSE, warns |-> 0, failed |-> FALSE]
  ELSE IF ~no_modify
    THEN IF nrefs > XFS_MAXLINK_1
           THEN [di_nlink |-> di, dirty |-> TRUE, warns |-> 1,
                 failed |-> TRUE]
           ELSE [di_nlink |-> nrefs, dirty |-> TRUE, warns |-> 1,
                 failed |-> FALSE]
    ELSE [di_nlink |-> di, dirty |-> FALSE, warns |-> 1, failed |-> FALSE]

\* set_nlinks without the do_warn of the no_modify branch
set_nlinks_silent_dry_run(di, ino, nrefs) ==
  IF di = nrefs
    THEN [di_nlink |-> di, dirty |-> FALSE, warns |-> 0, failed |-> FALSE]
  ELSE IF ~no_modify
    THEN IF nrefs > XFS_MAXLINK_1 /\ ~fs_inode_nlink
           THEN [di_nlink |-> di, dirty |-> TRUE, warns |-> 1,
                 failed |-> TRUE]
           ELSE [di_nlink |-> nrefs, dirty |-> TRUE,
                 warns |-> IF nrefs > XFS_MAXLINK_1 THEN 2 ELSE 1,
                 failed |-> FALSE]
    ELSE [di_nlink |-> di, dirty |-> FALSE, warns |-> 0, failed |-> FALSE]

\* -------------------------------------------------------------- set_nlinks
\* What set_nlinks does to the in-core dinode whose link count is di:
\* the new link count, *dirty, the do_warn calls, and whether
\* ASSERT(fs_inode_nlink) failed.
set_nlinks(di, ino, nrefs) ==
  IF di = nrefs
    THEN [di_nlink |-> di, dirty |-> FALSE, warns |-> 0, failed |-> FALSE]
  ELSE IF ~no_modify
    THEN IF nrefs > XFS_MAXLINK_1 /\ ~fs_inode_nlink
           THEN [di_nlink |-> di, dirty |-> TRUE, warns |-> 1,
                 failed |-> TRUE]
           ELSE [di_nlink |-> nrefs, dirty |-> TRUE,
                 warns |-> IF nrefs > XFS_MAXLINK_1 THEN 2 ELSE 1,
                 failed |-> FALSE]
    ELSE [di_nlink |-> di, dirty |-> FALSE, warns |-> 1, failed |-> FALSE]

\* ----------------------------------------------------- update_inode_nlinks
\* libxfs_trans_iget(mp, tp, ino, 0, 0, &ip): the error it returns
libxfs_trans_iget(ino) == IF ino \in iget_err THEN 5 ELSE 0

\* what update_inode_nlinks does once libxfs_trans_iget has succeeded
AfterIget(ino, nlinks) ==
  LET r == IF ino # orphanage_ino
             THEN set_nlinks(di_nlink[ino], ino, nlinks)
             ELSE [di_nlink |-> di_nlink[ino], dirty |-> FALSE, warns |-> 0,
                   failed |-> FALSE]
  IN
  IF r.failed
    THEN /\ aborted' = "assert"
         /\ warns' = [warns EXCEPT ![ino] = @ + r.warns]
         /\ UNCHANGED <<di_nlink, tp_commit, tp_cancel, nlink_log>>
  ELSE IF ~r.dirty
    THEN /\ tp_cancel' = [tp_cancel EXCEPT ![ino] = @ + 1]
         /\ warns' = [warns EXCEPT ![ino] = @ + r.warns]
         /\ UNCHANGED <<di_nlink, tp_commit, nlink_log, aborted>>
    ELSE /\ di_nlink' = [di_nlink EXCEPT ![ino] = r.di_nlink]
         /\ nlink_log' = [nlink_log EXCEPT ![ino] = Append(@, r.di_nlink)]
         /\ tp_commit' = [tp_commit EXCEPT ![ino] = @ + 1]
         /\ warns' = [warns EXCEPT ![ino] = @ + r.warns]
         /\ UNCHANGED <<tp_cancel, aborted>>

\* update_inode_nlinks that only warns, in mutation mode too, when the inode
\* cannot be mapped
update_inode_nlinks_warns_only(ino, nlinks) ==
  /\ tp_alloc' = [tp_alloc EXCEPT ![ino] = @ + 1]
  /\ IF libxfs_trans_iget(ino) # 0
       THEN /\ warns' = [warns EXCEPT ![ino] = @ + 1]
            /\ UNCHANGED <<di_nlink, tp_commit, tp_cancel, nlink_log, aborted>>
       ELSE AfterIget(ino, nlinks)

\* update_inode_nlinks that calls do_error, in dry-run mode too, when the
\* inode cannot be mapped
update_inode_nlinks_always_fatal(ino, nlinks) ==
  /\ tp_alloc' = [tp_alloc EXCEPT ![ino] = @ + 1]
  /\ IF libxfs_trans_iget(ino) # 0
       THEN /\ aborted' = "do_error"
            /\ UNCHANGED <<di_nlink, tp_commit, tp_cancel, nlink_log, warns>>
       ELSE AfterIget(ino, nlinks)

\* the call update_inode_nlinks(mp, ino, nlinks), from libxfs_trans_alloc to
\* the return, do_error or failed assertion
update_inode_nlinks(ino, nlinks) ==
  /\ tp_alloc' = [tp_alloc EXCEPT ![ino] = @ + 1]
  /\ IF libxfs_trans_iget(ino) # 0
       THEN IF ~no_modify
              THEN /\ aborted' = "do_error"
                   /\ UNCHANGED <<di_nlink, tp_commit, tp_cancel, nlink_log,
                                  warns>>
              ELSE /\ warns' = [warns EXCEPT ![ino] = @ + 1]
                   /\ UNCHANGED <<di_nlink, tp_commit, tp_cancel, nlink_log,
                                  aborted>>
       ELSE AfterIget(ino, nlinks)

\* ------------------------------------------------------- the walk of a slot
\* the body of the loop with assert(is_inode_reached(irec, j)) and
\* assert(is_inode_referenced(irec, j)) for "no_modify ||" of them
ExamineSlot_asserts_in_dry_run(agno, irec, j) ==
  IF ~is_inode_confirmed(agno, irec, j)
    THEN /\ aborted' = "assert"
         /\ UNCHANGED <<di_nlink, tpvars, visited>>
  ELSE IF is_inode_free(agno, irec, j)
    THEN UNCHANGED <<di_nlink, tpvars, visited, aborted>>
  ELSE IF ~is_inode_reached(agno, irec, j)
          \/ ~is_inode_referenced(agno, irec, j)
    THEN /\ aborted' = "assert"
         /\ UNCHANGED <<di_nlink, tpvars, visited>>
  ELSE LET nrefs == num_inode_references(agno, irec, j) IN
       /\ visited' = [visited EXCEPT ![<<agno, irec, j>>] = @ + 1]
       /\ IF get_inode_disk_nlinks(agno, irec, j) # nrefs
            THEN /\ update_inode_nlinks(InoOf(agno, irec, j), nrefs)
                 /\ tp_owner' = [tp_owner EXCEPT
                                   ![InoOf(agno, irec, j)] = @ \cup {agno}]
            ELSE UNCHANGED <<di_nlink, tpvars, aborted>>

\* the body of the loop without "if (get_inode_disk_nlinks(irec, j) != nrefs)"
ExamineSlot_always_updates(agno, irec, j) ==
  IF ~is_inode_confirmed(agno, irec, j)
    THEN /\ aborted' = "assert"
         /\ UNCHANGED <<di_nlink, tpvars, visited>>
  ELSE IF is_inode_free(agno, irec, j)
    THEN UNCHANGED <<di_nlink, tpvars, visited, aborted>>
  ELSE IF ~(no_modify \/ is_inode_reached(agno, irec, j))
          \/ ~(no_modify \/ is_inode_referenced(agno, irec, j))
    THEN /\ aborted' = "assert"
         /\ UNCHANGED <<di_nlink, tpvars, visited>>
  ELSE LET nrefs == num_inode_references(agno, irec, j) IN
       /\ visited' = [visited EXCEPT ![<<agno, irec, j>>] = @ + 1]
       /\ update_inode_nlinks(InoOf(agno, irec, j), nrefs)
       /\ tp_owner' = [tp_owner EXCEPT
                         ![InoOf(agno, irec, j)] = @ \cup {agno}]

\* the body of the loop with the test of is_inode_free before
\* assert(is_inode_confirmed(irec, j))
ExamineSlot_free_test_first(agno, irec, j) ==
  IF is_inode_free(agno, irec, j)
    THEN UNCHANGED <<di_nlink, tpvars, visited, aborted>>
  ELSE IF ~is_inode_confirmed(agno, irec, j)
    THEN /\ aborted' = "assert"
         /\ UNCHANGED <<di_nlink, tpvars, visited>>
  ELSE IF ~(no_modify \/ is_inode_reached(agno, irec, j))
          \/ ~(no_modify \/ is_inode_referenced(agno, irec, j))
    THEN /\ aborted' = "assert"
         /\ UNCHANGED <<di_nlink, tpvars, visited>>
  ELSE LET nrefs == num_inode_references(agno, irec, j) IN
       /\ visited' = [visited EXCEPT ![<<agno, irec, j>>] = @ + 1]
       /\ IF get_inode_disk_nlinks(agno, irec, j) # nrefs
            THEN /\ update_inode_nlinks(InoOf(agno, irec, j), nrefs)
                 /\ tp_owner' = [tp_owner EXCEPT
                                   ![InoOf(agno, irec, j)] = @ \cup {agno}]
            ELSE UNCHANGED <<di_nlink, tpvars, aborted>>

\* the body of the for (j ...) loop for slot j of record irec of AG agno
\* (phase7.c:138-151 and 200-215), without the j++
ExamineSlot(agno, irec, j) ==
  IF ~is_inode_confirmed(agno, irec, j)
    THEN /\ aborted' = "assert"
         /\ UNCHANGED <<di_nlink, tpvars, visited>>
  ELSE IF is_inode_free(agno, irec, j)
    THEN UNCHANGED <<di_nlink, tpvars, visited, aborted>>
  ELSE IF ~(no_modify \/ is_inode_reached(agno, irec, j))
          \/ ~(no_modify \/ is_inode_referenced(agno, irec, j))
    THEN /\ aborted' = "assert"
         /\ UNCHANGED <<di_nlink, tpvars, visited>>
  ELSE LET nrefs == num_inode_references(agno, irec, j) IN
       /\ visited' = [visited EXCEPT ![<<agno, irec, j>>] = @ + 1]
       /\ IF get_inode_disk_nlinks(agno, irec, j) # nrefs
            THEN /\ update_inode_nlinks(InoOf(agno, irec, j), nrefs)
                 /\ tp_owner' = [tp_owner EXCEPT
                                   ![InoOf(agno, irec, j)] = @ \cup {agno}]
            ELSE UNCHANGED <<di_nlink, tpvars, aborted>>


\* the walk with "if (irec != NULL)" for "while (irec != NULL)": it leaves
\* the AG after its first record
WalkSlot_first_record_only(agno) ==
  /\ ExamineSlot(agno, w_irec[agno], w_j[agno])
  /\ IF aborted' # "no"
       THEN UNCHANGED <<w_irec, w_j>>
     ELSE IF w_j[agno] + 1 < XFS_INODES_PER_CHUNK
       THEN /\ w_j' = [w_j EXCEPT ![agno] = @ + 1]
            /\ UNCHANGED w_irec
       ELSE /\ w_irec' = [w_irec EXCEPT ![agno] = NULL]
            /\ w_j' = [w_j EXCEPT ![agno] = 0]

\* One pass of the body of for (j = 0; j < XFS_INODES_PER_CHUNK; j++) and
\* what follows it up to the next pass: j++, and after the last slot of the
\* record irec = next_ino_rec(irec).  Nothing follows when the body ended
\* the process.
WalkSlot(agno) ==
  /\ ExamineSlot(agno, w_irec[agno], w_j[agno])
  /\ IF aborted' # "no"
       THEN UNCHANGED <<w_irec, w_j>>
     ELSE IF w_j[agno] + 1 < XFS_INODES_PER_CHUNK
       THEN /\ w_j' = [w_j EXCEPT ![agno] = @ + 1]
            /\ UNCHANGED w_irec
       ELSE /\ w_irec' = [w_irec EXCEPT ![agno] = next_ino_rec(agno, @)]
            /\ w_j' = [w_j EXCEPT ![agno] = 0]

\* --------------------------------------------------- phase7, sequential walk
\* phase7(): the messages, then phase7_alt or the loop over the AGs
phase7 ==
  /\ pc = "phase7" /\ aborted = "no"
  /\ pc' = IF do_prefetch THEN "phase7_alt" ELSE "for"
  /\ i' = 0
  /\ UNCHANGED <<cfgvars, do_prefetch, di_nlink, w_irec, w_j, task, aborted,
                 tpvars, visited, prog_rpt_done, final_rpt, nqueued, run, prev>>

\* for (i = 0; i < glob_agcount; i++) { irec = findfirst_inode_rec(i);
SeqFor ==
  /\ pc = "for" /\ aborted = "no"
  /\ IF i < glob_agcount
       THEN /\ w_irec' = [w_irec EXCEPT ![i] = findfirst_inode_rec(i)]
            /\ w_j' = [w_j EXCEPT ![i] = 0]
            /\ pc' = "while"
       ELSE /\ pc' = "done"
            /\ UNCHANGED <<w_irec, w_j>>
  /\ UNCHANGED <<cfgvars, do_prefetch, di_nlink, i, task, aborted, tpvars,
                 visited, prog_rpt_done, final_rpt, nqueued, run, prev>>

\* while (irec != NULL) { for (j ...) { one slot } ... }
SeqSlot ==
  /\ pc = "while" /\ aborted = "no"
  /\ w_irec[i] # NULL
  /\ WalkSlot(i)
  /\ UNCHANGED <<cfgvars, do_prefetch, pc, i, task, prog_rpt_done, final_rpt,
                 nqueued, run, prev>>

\* while (irec != NULL) ends: i++
SeqEndAG ==
  /\ pc = "while" /\ aborted = "no"
  /\ w_irec[i] = NULL
  /\ i' = i + 1
  /\ pc' = "for"
  /\ UNCHANGED <<cfgvars, do_prefetch, di_nlink, w_irec, w_j, task, aborted,
                 tpvars, visited, prog_rpt_done, final_rpt, nqueued, run,
                 prev>>

\* ------------------------------------------------ phase7_alt, one task an AG
\* phase7_alt whose loop queues no work for the last AG
phase7_alt_skips_last ==
  /\ pc = "phase7_alt" /\ aborted = "no"
  /\ task' = [a \in AGs |-> IF a < glob_agcount - 1 THEN "queued" ELSE task[a]]
  /\ nqueued' = [a \in AGs |-> IF a < glob_agcount - 1 THEN nqueued[a] + 1
                                                       ELSE nqueued[a]]
  /\ i' = glob_agcount
  /\ pc' = "wait_for_workers"
  /\ UNCHANGED <<cfgvars, do_prefetch, di_nlink, w_irec, w_j, aborted, tpvars,
                 visited, prog_rpt_done, final_rpt, run, prev>>

\* phase7_alt() up to the call of wait_for_workers: set_progress_msg, and
\* for (i = 0; i < glob_agcount; i++) queue_work(phase7_alt_function, mp, i);
phase7_alt ==
  /\ pc = "phase7_alt" /\ aborted = "no"
  /\ task' = [a \in AGs |-> IF a < glob_agcount THEN "queued" ELSE task[a]]
  /\ nqueued' = [a \in AGs |-> IF a < glob_agcount THEN nqueued[a] + 1
                                                   ELSE nqueued[a]]
  /\ i' = glob_agcount
  /\ pc' = "wait_for_workers"
  /\ UNCHANGED <<cfgvars, do_prefetch, di_nlink, w_irec, w_j, aborted, tpvars,
                 visited, prog_rpt_done, final_rpt, run, prev>>

\* wait_for_workers() returns when no queued work item is left unfinished
wait_for_workers == \A a \in AGs : task[a] \notin {"queued", "running"}

\* phase7_alt without the call of wait_for_workers
AltReport_no_wait ==
  /\ pc = "wait_for_workers" /\ aborted = "no"
  /\ final_rpt' = final_rpt + 1
  /\ pc' = "done"
  /\ UNCHANGED <<cfgvars, do_prefetch, di_nlink, i, w_irec, w_j, task, aborted,
                 tpvars, visited, prog_rpt_done, nqueued, run, prev>>

\* wait_for_workers(); print_final_rpt();
AltReport ==
  /\ pc = "wait_for_workers" /\ aborted = "no"
  /\ wait_for_workers
  /\ final_rpt' = final_rpt + 1
  /\ pc' = "done"
  /\ UNCHANGED <<cfgvars, do_prefetch, di_nlink, i, w_irec, w_j, task, aborted,
                 tpvars, visited, prog_rpt_done, nqueued, run, prev>>

\* a worker takes the work item: phase7_alt_function(mp, agno) up to the
\* first test of while (irec != NULL)
TaskStart(agno) ==
  /\ task[agno] = "queued" /\ aborted = "no"
  /\ w_irec' = [w_irec EXCEPT ![agno] = findfirst_inode_rec(agno)]
  /\ w_j' = [w_j EXCEPT ![agno] = 0]
  /\ task' = [task EXCEPT ![agno] =
                IF findfirst_inode_rec(agno) = NULL THEN "done" ELSE "running"]
  /\ UNCHANGED <<cfgvars, do_prefetch, di_nlink, pc, i, aborted, tpvars,
                 visited, prog_rpt_done, final_rpt, nqueued, run, prev>>

\* the task with PROG_RPT_INC(prog_rpt_done[agno], 1) for every live slot
\* in place of the increment after a record
TaskSlot_counts_live_slots(agno) ==
  /\ task[agno] = "running" /\ aborted = "no"
  /\ w_irec[agno] # NULL
  /\ WalkSlot(agno)
  /\ prog_rpt_done' =
       [prog_rpt_done EXCEPT ![agno] =
          IF aborted' = "no"
             /\ ~is_inode_free(agno, w_irec[agno], w_j[agno])
            THEN @ + 1 ELSE @]
  /\ task' = [task EXCEPT ![agno] =
                IF aborted' = "no" /\ w_irec'[agno] = NULL
                  THEN "done" ELSE @]
  /\ UNCHANGED <<cfgvars, do_prefetch, pc, i, final_rpt, nqueued, run, prev>>

\* the task whose work item is never marked finished
TaskSlot_never_done(agno) ==
  /\ task[agno] = "running" /\ aborted = "no"
  /\ w_irec[agno] # NULL
  /\ WalkSlot(agno)
  /\ prog_rpt_done' =
       [prog_rpt_done EXCEPT ![agno] =
          IF aborted' = "no" /\ w_j[agno] + 1 = XFS_INODES_PER_CHUNK
            THEN @ + XFS_INODES_PER_CHUNK ELSE @]
  /\ UNCHANGED <<cfgvars, do_prefetch, pc, i, final_rpt, nqueued, run, prev,
                 task>>

\* one slot of the walk of phase7_alt_function; after the last slot of a
\* record PROG_RPT_INC(prog_rpt_done[agno], XFS_INODES_PER_CHUNK), and the
\* function returns when irec is NULL
TaskSlot(agno) ==
  /\ task[agno] = "running" /\ aborted = "no"
  /\ w_irec[agno] # NULL
  /\ WalkSlot(agno)
  /\ prog_rpt_done' =
       [prog_rpt_done EXCEPT ![agno] =
          IF aborted' = "no" /\ w_j[agno] + 1 = XFS_INODES_PER_CHUNK
            THEN @ + XFS_INODES_PER_CHUNK ELSE @]
  /\ task' = [task EXCEPT ![agno] =
                IF aborted' = "no" /\ w_irec'[agno] = NULL
                  THEN "done" ELSE @]
  /\ UNCHANGED <<cfgvars, do_prefetch, pc, i, final_rpt, nqueued, run, prev>>

Task == \E agno \in AGs : TaskStart(agno) \/ TaskSlot(agno)

Next ==
  \/ phase7
  \/ SeqFor
  \/ SeqSlot
  \/ SeqEndAG
  \/ phase7_alt
  \/ AltReport
  \/ Task

Spec == Init /\ [][Next]_vars

\* the same pass over trees that hold unmappable inodes
InitErr == InitWith(ErrOdd, BOOLEAN, BOOLEAN, {TRUE})
SpecErr == InitErr /\ [][Next]_vars

\* the same pass over trees that hold an inode with more references than a
\* version 1 inode can count, on filesystems with and without the nlink
\* feature
OverflowIno == Ino(FALSE, AllSet, XFS_MAXLINK_1 + 1, 1, 1, FALSE, FALSE)
OverOdd == {OverflowIno, StaleFixedIno, OrphanageIno, UnmappedIno}
InitOver == InitWith(OverOdd, BOOLEAN, BOOLEAN, BOOLEAN)
SpecOver == InitOver /\ [][Next]_vars

\* the same pass over trees that hold slots the earlier phases did not mark
\* confirmed, reached or referenced
FreeUnconfirmedIno == Ino(TRUE, <<FALSE, TRUE, TRUE>>, 1, 0, 0, FALSE, FALSE)
FreeUnreachedIno == Ino(TRUE, <<TRUE, FALSE, FALSE>>, 1, 0, 0, FALSE, FALSE)
UnconfirmedIno == Ino(FALSE, <<FALSE, TRUE, TRUE>>, 2, 1, 1, FALSE, FALSE)
UnreachedIno == Ino(FALSE, <<TRUE, FALSE, TRUE>>, 2, 1, 1, FALSE, FALSE)
UnreferencedIno == Ino(FALSE, <<TRUE, TRUE, FALSE>>, 2, 1, 1, FALSE, FALSE)
FlagOdd == {FreeUnconfirmedIno, FreeUnreachedIno, UnconfirmedIno,
            UnreachedIno, UnreferencedIno}
InitFlags == InitWith(FlagOdd, BOOLEAN, BOOLEAN, {TRUE})
SpecFlags == InitFlags /\ [][Next]_vars

\* The pass under fair scheduling: the thread that called phase7() keeps
\* running while it has a step to take, and the worker pool runs every work
\* item that is queued or running; over trees that may hold an unmappable
\* inode, the one fatal condition of these trees.
FairOdd == {FreeIno, UnmappedIno}
InitFair == InitWith(FairOdd, BOOLEAN, BOOLEAN, {TRUE})
Fairness ==
  /\ WF_vars(phase7 \/ SeqFor \/ SeqSlot \/ SeqEndAG \/ phase7_alt \/ AltReport)
  /\ \A agno \in AGs : WF_vars(TaskStart(agno) \/ TaskSlot(agno))
SpecFair == InitFair /\ [][Next]_vars /\ Fairness

\* ------------------------------------------------------------- two passes
\* what a pass left behind
Results ==
  [di_nlink |-> di_nlink, nlink_log |-> nlink_log, tp_commit |-> tp_commit,
   aborted |-> aborted]

\* phase7() is entered anew: its locals and the accounting start afresh
Reenter ==
  /\ run = 1
  /\ run' = 2
  /\ prev' = Results
  /\ pc' = "phase7"
  /\ i' = 0
  /\ w_irec' = [a \in AGs |-> NULL]
  /\ w_j' = [a \in AGs |-> 0]
  /\ task' = [a \in AGs |-> "none"]
  /\ nqueued' = [a \in AGs |-> 0]
  /\ tp_alloc' = [ino \in Inos |-> 0]
  /\ tp_commit' = [ino \in Inos |-> 0]
  /\ tp_cancel' = [ino \in Inos |-> 0]
  /\ nlink_log' = [ino \in Inos |-> <<>>]
  /\ warns' = [ino \in Inos |-> 0]
  /\ tp_owner' = [ino \in Inos |-> {}]
  /\ visited' = [p \in AllPos |-> 0]
  /\ prog_rpt_done' = [a \in AGs |-> 0]
  /\ final_rpt' = 0
  /\ UNCHANGED <<no_modify, fs_inode_nlink, orphanage_ino, inode_tree,
                 iget_err>>

\* a pass that completed is followed by a second pass over the same tree and
\* the disk as the first pass left it
phase7_again ==
  /\ pc = "done" /\ aborted = "no"
  /\ Reenter
  /\ di_nlink0' = di_nlink
  /\ UNCHANGED <<di_nlink, do_prefetch, aborted>>

InitTwice == InitWith(ValueOdd, {FALSE}, BOOLEAN, {TRUE})
SpecTwice == InitTwice /\ [][Next \/ phase7_again]_vars

\* a sequential pass that ended, completed or not, is followed by a
\* concurrent pass over the same tree and the same disk as the first one found
phase7_other ==
  /\ pc = "done" \/ aborted # "no"
  /\ Reenter
  /\ di_nlink' = di_nlink0
  /\ do_prefetch' = ~do_prefetch
  /\ aborted' = "no"
  /\ UNCHANGED di_nlink0

InitBoth == InitWith(ErrOdd, BOOLEAN, {FALSE}, {TRUE})
SpecBoth == InitBoth /\ [][Next \/ phase7_other]_vars

\* ------------------------------------------------------------------ claims
Completed == pc = "done" /\ aborted = "no"

\* C1: in dry-run mode (no_modify set) the link count of every on-disk inode
\* is at every moment of the pass, and so after it, what it was before the
\* pass, whatever mismatches are found, and no transaction is committed; in
\* the sequential and in the concurrent strategy.
C1_NoMutationInDryRun ==
  no_modify =>
    /\ di_nlink = di_nlink0
    /\ \A ino \in Inos : tp_commit[ino] = 0 /\ nlink_log[ino] = <<>>

\* a dry-run pass has completed and reported a mismatch
C1_Witness ==
  /\ no_modify /\ Completed
  /\ \E ino \in Inos : warns[ino] = 1 /\ tp_alloc[ino] = 1

\* C2, first part: the link count of lost+found is never written and no
\* transaction opened for it is committed.
OrphanageNeverWritten ==
  orphanage_ino \in Inos =>
    /\ di_nlink[orphanage_ino] = di_nlink0[orphanage_ino]
    /\ nlink_log[orphanage_ino] = <<>>
    /\ tp_commit[orphanage_ino] = 0

\* C2, second part: every call of update_inode_nlinks for lost+found that
\* returned has cancelled the transaction it opened.
OrphanageTransCancelled ==
  (orphanage_ino \in Inos /\ aborted = "no") =>
    tp_cancel[orphanage_ino] = tp_alloc[orphanage_ino]

\* C2: the on-disk link count of the orphanage inode is never written, even
\* when the memorised count differs from the counted references, in either
\* mode and either strategy; the transaction opened for it is always
\* cancelled, never committed.
C2_OrphanageExclusion == OrphanageNeverWritten /\ OrphanageTransCancelled

\* C3 as stated: in mutation mode, when the pass has completed without a
\* fatal error, every live slot but lost+found whose memorised on-disk link
\* count differed from its counted references has the counted number on disk
\* and exactly one committed write was made to it.
C3_CorrectedExactlyOnce ==
  (~no_modify /\ Completed) =>
    \A p \in LivePos :
      LET ino == InoOf(p[1], p[2], p[3])
          nrefs == num_inode_references(p[1], p[2], p[3])
      IN  (ino # orphanage_ino
           /\ get_inode_disk_nlinks(p[1], p[2], p[3]) # nrefs) =>
            /\ di_nlink[ino] = nrefs
            /\ nlink_log[ino] = <<nrefs>>
            /\ tp_commit[ino] = 1

\* C3 amended: in mutation mode, when the pass has completed without a fatal
\* error, every live slot but lost+found whose memorised on-disk link count
\* differed from its counted references has the counted number on disk,
\* through one call of update_inode_nlinks: exactly one committed write if
\* the inode on disk did not hold the counted number when the pass began,
\* and none if it already did.
C3_CorrectedAtMostOnce ==
  (~no_modify /\ Completed) =>
    \A p \in LivePos :
      LET ino == InoOf(p[1], p[2], p[3])
          nrefs == num_inode_references(p[1], p[2], p[3])
      IN  (ino # orphanage_ino
           /\ get_inode_disk_nlinks(p[1], p[2], p[3]) # nrefs) =>
            /\ di_nlink[ino] = nrefs
            /\ tp_alloc[ino] = 1
            /\ nlink_log[ino] =
                 IF di_nlink0[ino] # nrefs THEN <<nrefs>> ELSE <<>>
            /\ tp_commit[ino] = Len(nlink_log[ino])
            /\ tp_cancel[ino] = 1 - tp_commit[ino]

\* a pass in mutation mode has completed; it wrote one inode and found
\* another one, with a stale memorised count, already right
C3_Witness ==
  /\ ~no_modify /\ Completed
  /\ \E ino \in Inos : nlink_log[ino] = <<2>> /\ di_nlink0[ino] = 1
  /\ \E ino \in Inos :
       tp_alloc[ino] = 1 /\ tp_cancel[ino] = 1 /\ ino # orphanage_ino

\* C4 as stated: a second pass in mutation mode over the same tree, the disk
\* as the first pass left it, writes no link count and commits no
\* transaction, because after the first pass every inode holds on disk the
\* number of references counted for it.
C4_SecondPassAllCountsEqual ==
  run = 2 =>
    /\ di_nlink = di_nlink0
    /\ \A ino \in Inos : nlink_log[ino] = <<>> /\ tp_commit[ino] = 0
    /\ \A p \in LivePos :
         di_nlink0[InoOf(p[1], p[2], p[3])] =
           num_inode_references(p[1], p[2], p[3])

\* C4 amended: a second pass in mutation mode over the same tree, the disk
\* as the first pass left it, writes no link count and commits no
\* transaction, because after the first pass every inode the walker finds
\* mismatched, lost+found excepted, holds on disk the number of references
\* counted for it; lost+found, and an inode whose memorised count equals the
\* counted number, are never written and may hold another number.
C4_SecondPassCorrectsNothing ==
  run = 2 =>
    /\ di_nlink = di_nlink0
    /\ \A ino \in Inos : nlink_log[ino] = <<>> /\ tp_commit[ino] = 0
    /\ \A p \in LivePos :
         LET ino == InoOf(p[1], p[2], p[3])
             nrefs == num_inode_references(p[1], p[2], p[3])
         IN  (ino # orphanage_ino
              /\ get_inode_disk_nlinks(p[1], p[2], p[3]) # nrefs) =>
               di_nlink0[ino] = nrefs

\* the second pass has completed and has called update_inode_nlinks for an
\* inode the first pass wrote
C4_Witness ==
  /\ run = 2 /\ Completed /\ ~no_modify
  /\ \E ino \in Inos : prev.nlink_log[ino] # <<>> /\ tp_cancel[ino] = 1

\* the (inode number, value) pairs a pass wrote
WrittenPairs(log) ==
  UNION {{<<ino, log[ino][k]>> : k \in 1 .. Len(log[ino])} : ino \in DOMAIN log}

\* C5 as stated: for any tree, the pairs (inode, corrected value) the
\* concurrent pass wrote when it ended are those the sequential pass wrote,
\* and the link counts on disk are the same.
C5_SameWritesAlways ==
  (run = 2 /\ (pc = "done" \/ aborted # "no")) =>
    /\ WrittenPairs(nlink_log) = WrittenPairs(prev.nlink_log)
    /\ di_nlink = prev.di_nlink

\* C5 amended: for any tree over which both passes complete without a fatal
\* condition, and any interleaving of the tasks, the pairs the concurrent
\* pass wrote are those the sequential pass wrote, and the link counts on
\* disk are the same.
C5_SameWritesWhenCompleted ==
  (run = 2 /\ Completed /\ prev.aborted = "no") =>
    /\ WrittenPairs(nlink_log) = WrittenPairs(prev.nlink_log)
    /\ di_nlink = prev.di_nlink

\* both passes have completed in mutation mode and wrote inodes of two AGs
C5_Witness ==
  /\ run = 2 /\ Completed /\ prev.aborted = "no" /\ ~no_modify /\ do_prefetch
  /\ \E x, y \in WrittenPairs(nlink_log) :
       x[1] \div AginoSpace # y[1] \div AginoSpace

\* C6: when update_inode_nlinks has returned, the transaction it opened has
\* been ended by exactly one of commit and cancel, in either mode and also
\* when the inode could not be mapped: no call that returned leaves a
\* transaction open.
C6_TransactionLifecycle ==
  aborted = "no" =>
    \A ino \in Inos : tp_alloc[ino] = tp_commit[ino] + tp_cancel[ino]

\* the order of the sequential walk
Later(p, q) ==
  \/ p[1] < q[1]
  \/ p[1] = q[1] /\ p[2] < q[2]
  \/ p[1] = q[1] /\ p[2] = q[2] /\ p[3] < q[3]

\* C7: in mutation mode, when libxfs_trans_iget fails for a slot the walker
\* found mismatched, the run ends there with do_error: the inode is not
\* written, and the sequential walk stays at that slot, no later slot,
\* record or AG examined and no later transaction opened.
C7_AbortOnResolutionFailure ==
  ~no_modify =>
    /\ \A ino \in iget_err :
         tp_alloc[ino] > 0 =>
           /\ aborted = "do_error"
           /\ tp_alloc[ino] = 1 /\ tp_commit[ino] = 0
           /\ nlink_log[ino] = <<>>
           /\ di_nlink[ino] = di_nlink0[ino]
    /\ (aborted = "do_error" /\ ~do_prefetch) =>
         /\ pc = "while" /\ w_irec[i] # NULL
         /\ InoOf(i, w_irec[i], w_j[i]) \in iget_err
         /\ \A p \in AllPos :
              Later(<<i, w_irec[i], w_j[i]>>, p) =>
                visited[p] = 0 /\ tp_alloc[InoOf(p[1], p[2], p[3])] = 0

\* the sequential walk in mutation mode has ended at an unmappable inode,
\* after a write, with a live slot of a later AG left
C7_Witness ==
  /\ ~no_modify /\ ~do_prefetch /\ aborted = "do_error"
  /\ \E ino \in Inos : nlink_log[ino] # <<>>
  /\ \E p \in LivePos : p[1] > i

\* C8: in dry-run mode, when libxfs_trans_iget fails for a slot the walker
\* found mismatched, one warning is recorded, nothing is written, and the
\* walk goes on: the run is not ended, a step is possible until the pass is
\* done, and when it is done every live slot has been examined.
C8_DryRunContinues ==
  no_modify =>
    /\ aborted = "no"
    /\ \A ino \in iget_err :
         tp_alloc[ino] > 0 =>
           /\ warns[ino] = 1
           /\ nlink_log[ino] = <<>> /\ tp_commit[ino] = 0
           /\ di_nlink[ino] = di_nlink0[ino]
    /\ (pc = "done" \/ ENABLED Next)
    /\ pc = "done" => \A p \in LivePos : visited[p] = 1

\* a dry-run pass is done; it met an unmappable inode and examined a slot
\* after it
C8_Witness ==
  /\ no_modify /\ pc = "done"
  /\ \E p, q \in LivePos :
       /\ InoOf(p[1], p[2], p[3]) \in iget_err
       /\ tp_alloc[InoOf(p[1], p[2], p[3])] = 1
       /\ Later(p, q) /\ visited[q] = 1

\* C9: phase7_alt queues exactly one work item for each AG of
\* [0, glob_agcount), and print_final_rpt is called, once, only when every
\* one of them has finished: never while a task is queued or running.
C9_CompletionBarrier ==
  /\ \A a \in AGs : nqueued[a] <= 1
  /\ pc = "wait_for_workers" => \A a \in AGs : nqueued[a] = 1
  /\ final_rpt <= 1
  /\ final_rpt > 0 => \A a \in AGs : nqueued[a] = 1 /\ task[a] = "done"
  /\ (do_prefetch /\ pc = "done") => final_rpt = 1

\* the report has been made after tasks walked slots of two AGs
C9_Witness ==
  /\ final_rpt = 1
  /\ \E p, q \in LivePos : p[1] # q[1] /\ visited[p] = 1 /\ visited[q] = 1

\* C10: no slot is compared twice, no free slot is compared,
\* update_inode_nlinks is called at most once for an inode number; and when
\* a pass has completed, in either strategy, every live slot of every
\* record of every AG has been compared exactly once.
C10_PartitionCoverage ==
  /\ \A p \in DOMAIN visited :
       /\ visited[p] <= 1
       /\ is_inode_free(p[1], p[2], p[3]) => visited[p] = 0
  /\ \A ino \in Inos : tp_alloc[ino] <= 1
  /\ Completed => \A p \in LivePos : visited[p] = 1

\* a pass has completed over an AG of two records with a free slot
C10_Witness ==
  /\ Completed
  /\ \E a \in AGs : Len(inode_tree[a]) = 2
  /\ \E p \in AllPos : is_inode_free(p[1], p[2], p[3])
  /\ \E p \in LivePos : p[2] = 2 /\ visited[p] = 1

\* the live slots update_inode_nlinks was called for, loaded and went on to
\* compare a count above XFS_MAXLINK_1 that the inode did not hold
OverflowCalls ==
  {p \in LivePos :
     LET ino == InoOf(p[1], p[2], p[3]) IN
       /\ num_inode_references(p[1], p[2], p[3]) > XFS_MAXLINK_1
       /\ tp_alloc[ino] > 0
       /\ ino \notin iget_err /\ ino # orphanage_ino
       /\ di_nlink0[ino] # num_inode_references(p[1], p[2], p[3])}

\* C11 as stated: in mutation mode, when the target count is above
\* XFS_MAXLINK_1, update_inode_nlinks warns and completes the correction
\* (count written, transaction committed), and the run is never ended by
\* this, whether the filesystem has the nlink feature or not.
C11_OverflowNeverAborts ==
  ~no_modify =>
    /\ aborted # "assert"
    /\ \A p \in OverflowCalls :
         LET ino == InoOf(p[1], p[2], p[3])
             nrefs == num_inode_references(p[1], p[2], p[3])
         IN  /\ warns[ino] >= 1
             /\ di_nlink[ino] = nrefs
             /\ nlink_log[ino] = <<nrefs>>
             /\ tp_commit[ino] = 1

\* C11 amended: in mutation mode, when the target count is above
\* XFS_MAXLINK_1 and the filesystem has the nlink feature, set_nlinks warns
\* twice and the correction completes (count written, transaction
\* committed); when the filesystem lacks the feature ASSERT(fs_inode_nlink)
\* fails after the first warning and ends the run, the count not written and
\* the transaction not committed.  Nothing else fails an assertion here.
C11_OverflowCorrectedWithFeature ==
  ~no_modify =>
    /\ \A p \in OverflowCalls :
         LET ino == InoOf(p[1], p[2], p[3])
             nrefs == num_inode_references(p[1], p[2], p[3])
         IN  IF fs_inode_nlink
               THEN /\ warns[ino] = 2
                    /\ di_nlink[ino] = nrefs
                    /\ nlink_log[ino] = <<nrefs>>
                    /\ tp_commit[ino] = 1 /\ tp_cancel[ino] = 0
               ELSE /\ aborted = "assert"
                    /\ warns[ino] = 1
                    /\ di_nlink[ino] = di_nlink0[ino]
                    /\ nlink_log[ino] = <<>>
                    /\ tp_commit[ino] = 0 /\ tp_cancel[ino] = 0
    /\ aborted = "assert" => (~fs_inode_nlink /\ OverflowCalls # {})

\* a pass in mutation mode over a filesystem with the nlink feature has
\* completed and wrote a count above XFS_MAXLINK_1
C11_Witness ==
  /\ ~no_modify /\ fs_inode_nlink /\ Completed
  /\ \E ino \in Inos : nlink_log[ino] = <<XFS_MAXLINK_1 + 1>>

\* the live slots update_inode_nlinks was called for
Calls == {p \in LivePos : tp_alloc[InoOf(p[1], p[2], p[3])] > 0}

\* C12 as stated: a call of update_inode_nlinks that returned has made
\* exactly one do_warn call in mutation mode, and in dry-run mode exactly
\* one when the link count of the inode differs from the target and none
\* otherwise; for every inode, lost+found and an inode that already holds
\* the target included.
C12_OneDiagnosticPerCall ==
  aborted = "no" =>
    \A p \in Calls :
      LET ino == InoOf(p[1], p[2], p[3])
          nrefs == num_inode_references(p[1], p[2], p[3])
      IN  warns[ino] = IF ~no_modify THEN 1
                       ELSE IF di_nlink0[ino] # nrefs THEN 1 ELSE 0

\* C12 amended: a call of update_inode_nlinks that returned has made one
\* do_warn call when the inode could not be mapped (dry-run mode); none
\* when the inode is lost+found or already holds the target, in either
\* mode; two in mutation mode when the target is above XFS_MAXLINK_1; and
\* one otherwise, in either mode.
C12_DiagnosticsPerCall ==
  aborted = "no" =>
    \A p \in Calls :
      LET ino == InoOf(p[1], p[2], p[3])
          nrefs == num_inode_references(p[1], p[2], p[3])
      IN  warns[ino] =
            IF ino \in iget_err THEN 1
            ELSE IF ino = orphanage_ino \/ di_nlink0[ino] = nrefs THEN 0
            ELSE IF ~no_modify /\ nrefs > XFS_MAXLINK_1 THEN 2
            ELSE 1

\* a pass has completed with a call that warned once and a call that did
\* not warn
C12_Witness ==
  /\ Completed
  /\ \E p, q \in Calls :
       /\ warns[InoOf(p[1], p[2], p[3])] = 0
       /\ warns[InoOf(q[1], q[2], q[3])] = 1

\* C13, for the calls that loaded the inode: the transaction is committed
\* exactly when the link count was overwritten, the count on disk is then
\* the target; and when the inode held the target, or is lost+found, or the
\* mode is dry-run, the transaction is cancelled and not committed.
CommitIffMutatedWhenLoaded ==
  aborted = "no" =>
    \A p \in Calls :
      LET ino == InoOf(p[1], p[2], p[3])
          nrefs == num_inode_references(p[1], p[2], p[3])
      IN  /\ tp_commit[ino] = Len(nlink_log[ino])
          /\ tp_commit[ino] = 1 => di_nlink[ino] = nrefs
          /\ (ino \notin iget_err
               /\ (di_nlink0[ino] = nrefs \/ ino = orphanage_ino \/ no_modify))
               => (tp_cancel[ino] = 1 /\ tp_commit[ino] = 0)

\* C13: in a call of update_inode_nlinks that returned, the transaction is
\* committed if and only if the link count was overwritten, the count on
\* disk is then the target; and when the inode held the target, or is
\* lost+found, or the mode is dry-run, the inode is released and the
\* transaction is cancelled without commit.
C13_CommitIffMutated ==
  aborted = "no" =>
    \A p \in Calls :
      LET ino == InoOf(p[1], p[2], p[3])
          nrefs == num_inode_references(p[1], p[2], p[3])
      IN  /\ tp_commit[ino] = Len(nlink_log[ino])
          /\ tp_commit[ino] = 1 => di_nlink[ino] = nrefs
          /\ (di_nlink0[ino] = nrefs \/ ino = orphanage_ino \/ no_modify)
               => (tp_cancel[ino] = 1 /\ tp_commit[ino] = 0)

\* the slots at which a walk stands: the sequential loop, or a running task
WalkerAt ==
  {p \in AllPos :
     /\ w_irec[p[1]] = p[2] /\ w_j[p[1]] = p[3]
     /\ IF do_prefetch THEN task[p[1]] = "running"
                       ELSE pc = "while" /\ i = p[1]}

\* the slots at which an assertion of the walk fails
FailsAssert(p) ==
  \/ ~is_inode_confirmed(p[1], p[2], p[3])
  \/ /\ ~is_inode_free(p[1], p[2], p[3])
     /\ ~no_modify
     /\ \/ ~is_inode_reached(p[1], p[2], p[3])
        \/ ~is_inode_referenced(p[1], p[2], p[3])

\* no transaction, no diagnostic and no comparison for a free slot
FreeSlotsUntouched ==
  \A p \in AllPos :
    is_inode_free(p[1], p[2], p[3]) =>
      /\ visited[p] = 0
      /\ tp_alloc[InoOf(p[1], p[2], p[3])] = 0
      /\ warns[InoOf(p[1], p[2], p[3])] = 0

\* C14 as stated: a free slot causes no transaction, no diagnostic and no
\* assertion failure whatever its confirmed, reached and referenced flags
\* are: an assertion fails only at a live slot.
C14_FreeSlotsSkipped ==
  /\ FreeSlotsUntouched
  /\ aborted = "assert" =>
       \E p \in WalkerAt : ~is_inode_free(p[1], p[2], p[3]) /\ FailsAssert(p)

\* C14 amended: a free slot causes no transaction, no diagnostic and no
\* comparison, and its reached and referenced flags are never looked at;
\* but assert(is_inode_confirmed) is evaluated for every slot before the
\* test of is_inode_free, so a free slot that is not confirmed ends the run:
\* the walk of its AG goes no further and the pass does not complete.
C14_FreeConfirmedSlotsSkipped ==
  /\ FreeSlotsUntouched
  /\ aborted = "assert" => \E p \in WalkerAt : FailsAssert(p)
  /\ \A p \in AllPos :
       (is_inode_free(p[1], p[2], p[3])
        /\ ~is_inode_confirmed(p[1], p[2], p[3])) =>
         /\ ~Completed
         /\ \A q \in LivePos :
              (q[1] = p[1] /\ Later(p, q)) => visited[q] = 0

\* a pass in mutation mode has completed over a free slot that is neither
\* reached nor referenced, and compared the slot after it
C14_Witness ==
  /\ ~no_modify /\ Completed
  /\ \E p \in AllPos, q \in LivePos :
       /\ is_inode_free(p[1], p[2], p[3])
       /\ ~is_inode_reached(p[1], p[2], p[3])
       /\ q[1] = p[1] /\ Later(p, q) /\ visited[q] = 1

\* C15: a live slot that is not confirmed ends the run by a failed
\* assertion in both modes, and so does, in mutation mode, one that is not
\* reached or not referenced: the slot is not compared, the walk of its AG
\* goes no further (nor, in the sequential walk, that of a later AG) and the
\* pass does not complete.  In dry-run mode a confirmed live slot is
\* tolerated unreached or unreferenced: no assertion fails at it, the walk
\* goes on and the slot is compared.  The same in both walkers.
C15_ModeDependentPreconditions ==
  /\ \A p \in LivePos :
       FailsAssert(p) =>
         /\ visited[p] = 0 /\ tp_alloc[InoOf(p[1], p[2], p[3])] = 0
         /\ ~Completed
         /\ \A q \in LivePos :
              (Later(p, q) /\ (q[1] = p[1] \/ ~do_prefetch)) => visited[q] = 0
  /\ aborted = "assert" => \E p \in WalkerAt : FailsAssert(p)
  /\ (no_modify /\ \A p \in AllPos : is_inode_confirmed(p[1], p[2], p[3])) =>
       /\ aborted = "no"
       /\ pc = "done" \/ ENABLED Next
       /\ pc = "done" => \A p \in LivePos : visited[p] = 1

\* the sequential walk in mutation mode has compared a slot and ended at a
\* confirmed live slot that is not reached
C15_Witness ==
  /\ ~no_modify /\ ~do_prefetch /\ aborted = "assert"
  /\ \E p \in WalkerAt :
       /\ ~is_inode_free(p[1], p[2], p[3])
       /\ is_inode_confirmed(p[1], p[2], p[3])
       /\ ~is_inode_reached(p[1], p[2], p[3])
       /\ \E q \in LivePos : Later(q, p) /\ visited[q] = 1

\* the records the task of an AG has walked to their last slot
RecordsWalked(a) ==
  IF task[a] = "done" THEN Len(inode_tree[a])
  ELSE IF task[a] = "running" THEN w_irec[a] - 1
  ELSE 0

\* C16: in the concurrent strategy the progress counter of an AG is at
\* every moment XFS_INODES_PER_CHUNK times the number of records the task
\* of that AG has walked to the end, whatever slots were free or corrected
\* and whatever the other tasks did; so it is (records of the AG) x
\* XFS_INODES_PER_CHUNK when the task is done; and no step decreases it.
C16_ProgressAccounting ==
  /\ [](do_prefetch =>
         \A a \in AGs :
           prog_rpt_done[a] = XFS_INODES_PER_CHUNK * RecordsWalked(a))
  /\ [][\A a \in AGs : prog_rpt_done'[a] >= prog_rpt_done[a]]_vars

\* the concurrent pass has completed; the task of an AG of two records, one
\* with a free slot, counted both records whole
C16_Witness ==
  /\ do_prefetch /\ Completed
  /\ \E p \in AllPos :
       /\ is_inode_free(p[1], p[2], p[3])
       /\ Len(inode_tree[p[1]]) = 2
       /\ prog_rpt_done[p[1]] = 2 * XFS_INODES_PER_CHUNK
  /\ \E ino \in Inos : nlink_log[ino] # <<>>

\* C17: for a live slot whose memorised on-disk link count is the counted
\* number of references the walker does not call update_inode_nlinks: no
\* transaction is opened for its inode, nothing is written or logged and no
\* message is made, in either mode and either strategy.
C17_NoTransactionForMatchingSlots ==
  \A p \in LivePos :
    LET ino == InoOf(p[1], p[2], p[3]) IN
      get_inode_disk_nlinks(p[1], p[2], p[3])
        = num_inode_references(p[1], p[2], p[3]) =>
          /\ tp_alloc[ino] = 0 /\ tp_commit[ino] = 0 /\ tp_cancel[ino] = 0
          /\ tp_owner[ino] = {}
          /\ warns[ino] = 0
          /\ nlink_log[ino] = <<>>
          /\ di_nlink[ino] = di_nlink0[ino]

\* a pass has completed and compared a slot whose memorised count is the
\* counted number and whose inode holds another number
C17_Witness ==
  /\ Completed
  /\ \E p \in LivePos :
       /\ visited[p] = 1
       /\ get_inode_disk_nlinks(p[1], p[2], p[3])
            = num_inode_references(p[1], p[2], p[3])
       /\ di_nlink[InoOf(p[1], p[2], p[3])]
            # num_inode_references(p[1], p[2], p[3])

\* C18: under fair scheduling a pass that meets no fatal condition reaches
\* the end of phase7 in both strategies, every live slot compared; in the
\* concurrent one every queued task is then done, wait_for_workers has
\* returned and print_final_rpt has been called.  (A run either meets a
\* fatal condition or eventually is in that state.)
C18_Termination ==
  <>(\/ aborted # "no"
     \/ /\ pc = "done"
        /\ \A p \in LivePos : visited[p] = 1
        /\ do_prefetch =>
             (final_rpt = 1 /\ \A a \in AGs : task[a] = "done"))

\* the concurrent pass has ended with the report made, after tasks walked
\* slots of two AGs
C18_Witness ==
  /\ do_prefetch /\ Completed /\ final_rpt = 1
  /\ \A a \in AGs : task[a] = "done"
  /\ \E p, q \in LivePos : p[1] # q[1] /\ visited[p] = 1 /\ visited[q] = 1

\* C19, first part: the slots of the tree have distinct inode numbers; a
\* transaction is opened for an inode only by the walk of the AG the inode
\* lies in, a link count changes only through such a transaction, and the
\* progress counter of an AG follows the walk of that AG alone.
TasksShareNothing ==
  /\ \A p, q \in AllPos :
       InoOf(p[1], p[2], p[3]) = InoOf(q[1], q[2], q[3]) => p = q
  /\ \A p \in AllPos :
       LET ino == InoOf(p[1], p[2], p[3]) IN
         /\ tp_owner[ino] \subseteq {p[1]}
         /\ tp_alloc[ino] > 0 => tp_owner[ino] = {p[1]}
         /\ di_nlink[ino] # di_nlink0[ino] => tp_owner[ino] = {p[1]}
  /\ \A a \in AGs :
       prog_rpt_done[a] = XFS_INODES_PER_CHUNK * RecordsWalked(a)

\* C19, second part: a task has at most one transaction open at a time:
\* when it opens one, those it opened for earlier slots have been ended.
OneOpenTransactionPerTask ==
  \A p, q \in LivePos :
    LET ip == InoOf(p[1], p[2], p[3])
        iq == InoOf(q[1], q[2], q[3])
    IN  (p[1] = q[1] /\ Later(p, q) /\ tp_alloc[iq] > 0) =>
          tp_alloc[ip] = tp_commit[ip] + tp_cancel[ip]

\* C19: under every interleaving of the tasks of the concurrent strategy no
\* inode is addressed by transactions of two tasks, a task has at most one
\* transaction open at a time, and a task writes only inodes of its AG and
\* the progress counter of its AG.
C19_TaskIsolation ==
  do_prefetch => (TasksShareNothing /\ OneOpenTransactionPerTask)

\* C20: the walker calls update_inode_nlinks for a compared slot exactly
\* when the count memorised in the in-core record differs from the counted
\* references, and no step of the pass changes the record; set_nlinks
\* compares again with the link count of the inode that was loaded: when
\* that is the target already nothing is written, no message is made and
\* the transaction is cancelled, so a count is written only to an inode
\* whose count on disk was not the counted number.
C20_DoubleComparison ==
  /\ [](\A p \in LivePos :
          LET ino == InoOf(p[1], p[2], p[3])
              nrefs == num_inode_references(p[1], p[2], p[3])
          IN  /\ tp_alloc[ino] =
                   IF visited[p] = 1
                      /\ get_inode_disk_nlinks(p[1], p[2], p[3]) # nrefs
                     THEN 1 ELSE 0
              /\ (tp_alloc[ino] = 1 /\ di_nlink0[ino] = nrefs) =>
                   /\ nlink_log[ino] = <<>> /\ warns[ino] = 0
                   /\ tp_cancel[ino] = 1 /\ tp_commit[ino] = 0
                   /\ di_nlink[ino] = di_nlink0[ino]
              /\ nlink_log[ino] # <<>> =>
                   (di_nlink0[ino] # nrefs /\ nlink_log[ino] = <<nrefs>>))
  /\ [][inode_tree' = inode_tree]_vars

\* a pass in mutation mode has completed; update_inode_nlinks was called
\* for an inode that held the target, its memorised count stale, and
\* cancelled, and the record still holds the stale count
C20_Witness ==
  /\ ~no_modify /\ Completed
  /\ \E p \in LivePos :
       LET ino == InoOf(p[1], p[2], p[3]) IN
         /\ get_inode_disk_nlinks(p[1], p[2], p[3])
              # num_inode_references(p[1], p[2], p[3])
         /\ di_nlink0[ino] = num_inode_references(p[1], p[2], p[3])
         /\ ino # orphanage_ino
         /\ tp_alloc[ino] = 1 /\ tp_cancel[ino] = 1

TypeOK ==
  /\ pc \in {"phase7", "for", "while", "phase7_alt", "wait_for_workers",
            "done"}
  /\ aborted \in {"no", "do_error", "assert"}
  /\ \A a \in AGs : task[a] \in {"none", "queued", "running", "done"}

=============================================================================
